---- MODULE Spec2Model ----
(***************************************************************************)
(* A model of notiq: the monitor decorator (monitoring/decorators.py), the *)
(* name validator and the file-name sanitizer (monitoring/validation.py),  *)
(* the logger provisioner (monitoring/loggers.py), the metric builder      *)
(* (monitoring/builder.py), the task decorator (tasks/queue.py) and the    *)
(* configuration of the task-queue app (__init__.py, config.py).           *)
(***************************************************************************)
EXTENDS Integers, Sequences, FiniteSets, TLC

\* ------------------------------------------------------------------ bounds
\* Decorated functions the model creates.
MaxWrappers == 2
\* Invocations of decorated functions (one per caller slot).
MaxCalls == 2
\* Threads that provision loggers concurrently.
MaxLogThreads == 2
\* Provisioning requests made in all.
MaxProvisions == 3
\* Threads that resolve metrics concurrently.
MaxRegThreads == 2
\* Resolves made in all.
MaxResolves == 3
\* Runs of equal characters in the strings validate_metric_name is given.
MaxRuns == 2
\* Characters in the strings sanitize_log_filename is given.
MaxLen == 4
\* Calls of NotiqConfig.
MaxConfigs == 2
\* Records emitted through one logger.
MaxEmits == 1

\* --------------------------------------------------------------- strings
\* A string is a sequence of runs <<class, n>>: n >= 1 characters of one
\* character class.  Classes: "L" an ASCII letter, "D" an ASCII digit,
\* "U" the underscore, "N" a newline, "H" a hyphen, "X" any other character.
NameChars == {"L", "D", "U"}
FirstChars == {"L", "U"}

RECURSIVE StrLen(_)
StrLen(s) == IF s = <<>> THEN 0 ELSE s[1][2] + StrLen(Tail(s))

\* The quantifier {0,63} of VALID_NAME_PATTERN.
MaxTail == 63

\* re's "$" also matches just before a newline that ends the string.
DropFinalNewline(s) ==
    IF s # <<>> /\ s[Len(s)][1] = "N"
    THEN IF s[Len(s)][2] = 1
         THEN SubSeq(s, 1, Len(s) - 1)
         ELSE [s EXCEPT ![Len(s)] = <<"N", s[Len(s)][2] - 1>>]
    ELSE s

\* ^[a-zA-Z_][a-zA-Z0-9_]{0,63} matched against the whole of s.
BodyMatches(s) ==
    /\ s # <<>>
    /\ s[1][1] \in FirstChars
    /\ \A i \in 1..Len(s) : s[i][1] \in NameChars
    /\ StrLen(s) - 1 <= MaxTail

\* VALID_NAME_PATTERN.match(name)
PatternMatches(s) == BodyMatches(s) \/ BodyMatches(DropFinalNewline(s))

\* A value that is not a string at all (isinstance(name, str) fails).
NotAString == << <<"not-a-str", 0>> >>

\* validate_metric_name returns the name; FALSE here means it raises ValueError.
ValidMetricName(name) == name # NotAString /\ PatternMatches(name)

\* The metric names the model decorates with.
NameA == << <<"L", 3>> >>
NameB == << <<"U", 1>>, <<"D", 2>> >>
NameEmpty == << >>
NameDigitFirst == << <<"D", 1>>, <<"L", 2>> >>
NameTooLong == << <<"L", 65>> >>
NameHyphen == << <<"L", 2>>, <<"H", 1>>, <<"L", 1>> >>
GoodNames == {NameA, NameB}
BadNames == {NameEmpty, NameDigitFirst, NameTooLong, NameHyphen, NotAString}
MetricNames == GoodNames \cup BadNames

\* ---------------------------------------------------------------- loggers
\* logging.getLogger(name) hands out one logger object per name, so a logger
\* is identified by its name.  A logger that was never asked for has
\* exists = FALSE; it is created with level NOTSET, no handlers and
\* propagate = True.
Levels == {"DEBUG", "INFO"}

NewLogger ==
    [exists |-> FALSE, level |-> "NOTSET", handlers |-> <<>>, propagate |-> TRUE,
     \* history: the records emitted through the logger
     records |-> 0]

\* Logger.__init__: getLogger(logger_name), then setLevel(level).
LoggerInit(lg, level) == [lg EXCEPT !.exists = TRUE, !.level = level]

\* has_console: a StreamHandler that is not a RotatingFileHandler.
HasConsole(hs) == \E i \in 1..Len(hs) : hs[i].kind = "console"
\* has_file: a RotatingFileHandler.
HasFile(hs) == \E i \in 1..Len(hs) : hs[i].kind = "file"

NumHandlers(hs, k) == Cardinality({i \in 1..Len(hs) : hs[i].kind = k})

\* The console handler of _setup_handlers.
ConsoleHandler(level) == [kind |-> "console", level |-> level, fmt |-> "plain"]
\* The rotating file handler of _setup_file_handler.
FileHandler(level, json) ==
    [kind |-> "file", level |-> level, fmt |-> IF json THEN "json" ELSE "text"]

\* _setup_handlers, "if not has_console": attach the console handler.
\* (Faulty variant: has_console is not consulted.)
AddConsole_Always(lg, hasC, level) ==
    [lg EXCEPT !.handlers = Append(@, ConsoleHandler(level))]
AddConsole(lg, hasC, level) ==
    IF hasC THEN lg ELSE [lg EXCEPT !.handlers = Append(@, ConsoleHandler(level))]

\* _setup_file_handler: mkdir, sanitize, RotatingFileHandler(...), addHandler.
\* fs is what the file system answers: "ok", or the OSError that mkdir or
\* the opening of the file raises; both except clauses leave the logger as
\* it is.
SetupFileHandler(lg, level, json, fs) ==
    IF fs = "ok"
    THEN [lg EXCEPT !.handlers = Append(@, FileHandler(level, json))]
    ELSE lg

\* The number of diagnostics _setup_file_handler writes to sys.stderr.
Diagnostics(fs) == IF fs = "ok" THEN 0 ELSE 1

\* _setup_handlers, "if self.file_output and not has_file".
AddFile(lg, fo, hasF, level, json, fs) ==
    IF fo /\ ~hasF THEN SetupFileHandler(lg, level, json, fs) ELSE lg
FileDiagnostics(fo, hasF, fs) == IF fo /\ ~hasF THEN Diagnostics(fs) ELSE 0

\* _setup_handlers, "self.logger.propagate = False".
NoPropagate(lg) == [lg EXCEPT !.propagate = FALSE]

\* Logger(name, level=..., file_output=..., json_serialize=...).setup() run
\* by one caller from start to end.
Provision(lg, level, fo, json, fs) ==
    LET l0 == LoggerInit(lg, level)
        hasC == HasConsole(l0.handlers)
        hasF == HasFile(l0.handlers)
        l1 == AddConsole(l0, hasC, level)
        l2 == AddFile(l1, fo, hasF, level, json, fs)
    IN  NoPropagate(l2)

\* ------------------------------------------------------------------ state
VARIABLES
    \* monitor: the decorated functions, the last call of monitor(), the
    \* invocations, the REQUEST_COUNT and REQUEST_LATENCY children, the
    \* clock and the task that runs on the event loop (0: none).
    wrappers, lastDeco, calls, count, obsCount, now, loop,
    \* logging: the loggers by name, _setup_lock's holder (0: free), the
    \* provisioning threads, the names whose setup() has returned at
    \* least once and the number of requests made.  What a request writes to sys.stderr is counted in the
    \* request (diag).
    loggers, lockOwner, lth, configured, provisions,
    \* the metric registry (_names_to_collectors), the collectors made so
    \* far, the resolving threads, the number of resolves begun and what the
    \* resolves returned.
    registry, handles, rth, resolves, returned,
    \* the argument and the result of the function a specification of a
    \* single function applies (validate_metric_name, sanitize_log_filename,
    \* notiq_task),
    input, output,
    \* the NOTIQ_* settings of the environment, celery_app.conf and the
    \* last configuration call.
    env, conf, cfg

monVars == <<wrappers, lastDeco, calls, count, obsCount, now, loop>>
logVars == <<lockOwner, lth, configured, provisions>>
regVars == <<registry, handles, rth, resolves, returned>>
fnVars == <<input, output>>
cfgVars == <<env, conf, cfg>>
appVars == <<input, output, env, conf, cfg>>
vars == <<wrappers, lastDeco, calls, count, obsCount, now, loop,
          loggers, lockOwner, lth, configured, provisions,
          registry, handles, rth, resolves, returned,
          input, output, env, conf, cfg>>

\* ---------------------------------------------------------------- monitor
Slots == 1..MaxCalls
Statuses == {"success", "error", "cancelled"}
Kinds == {"sync", "async"}
\* Argument lists and return values of the wrapped callables.
ArgLists == {"args1", "args2"}
Values == {"v42"}

NoVal == "no-value"
NoExc == [type |-> "none", src |-> "none"]
\* What the wrapped callable may raise: an ordinary exception, and a
\* BaseException that is not an Exception.
FuncExcTypes == {"ValueError", "KeyboardInterrupt"}
\* asyncio.CancelledError, thrown into the suspended callable by cancel().
Cancellation == [type |-> "CancelledError", src |-> "cancel"]
\* What a log call raises when the logging call itself fails (logging's
\* makeRecord raises KeyError for a reserved key in extra; a filter or a
\* handler of the logger may raise).
LogFailure == [type |-> "KeyError", src |-> "log"]
\* The classes that "except Exception" catches.
IsException(e) == e.type \in {"ValueError", "KeyError"}

Returned(v) == [kind |-> "return", val |-> v, exc |-> NoExc]
Raised(e) == [kind |-> "raise", val |-> NoVal, exc |-> e]
NoOutcome == [kind |-> "none", val |-> NoVal, exc |-> NoExc]
FuncOutcomes ==
    {Returned(v) : v \in Values}
    \cup {Raised([type |-> t, src |-> "func"]) : t \in FuncExcTypes}

IdleCall ==
    [pc |-> "idle", w |-> 0, arg |-> "none", start |-> 0, val |-> NoVal,
     exc |-> NoExc, res |-> NoOutcome,
     \* history of the invocation
     fout |-> NoOutcome, invoked |-> 0, seenArg |-> "none", incs |-> <<>>,
     observed |-> <<>>, logs |-> <<>>, logFailed |-> FALSE]

NoDeco == [name |-> NameEmpty, raised |-> FALSE, made |-> FALSE, diag |-> 0]

WrapperOf(s) == wrappers[calls[s].w]
KindOf(s) == WrapperOf(s).kind
\* The function_name label is the decorator's metric_name.
\* (Faulty variant: the label is the wrapped callable's own name.)
NameOf_ByCallable(s) == IF calls[s].w = 1 THEN NameA ELSE NameB
NameOf(s) == WrapperOf(s).name
\* A thread runs whenever it is scheduled; a task runs only while it has
\* the event loop.
Running(s) == calls[s].w # 0 /\ (KindOf(s) = "sync" \/ loop = s)

\* monitor(metric_name, file_output, json_serialize, log_calls)(func):
\* validate_metric_name first; then the logger is provisioned and the
\* wrapper made.
\* (Faulty variant: the name is checked after the wrapper is made.)
Monitor_ValidateLate(name, kind, lc, fo, fs) ==
    /\ Len(wrappers) < MaxWrappers
    /\ wrappers' = Append(wrappers, [name |-> name, kind |-> kind, log_calls |-> lc])
    /\ loggers' = [loggers EXCEPT ![name] = Provision(@, "DEBUG", fo, TRUE, fs)]
    /\ lastDeco' = [name |-> name, raised |-> ~ValidMetricName(name), made |-> TRUE,
                    diag |-> FileDiagnostics(fo, FALSE, fs)]
    /\ UNCHANGED <<calls, count, obsCount, now, loop, logVars, regVars, appVars>>
Monitor(name, kind, lc, fo, fs) ==
    /\ Len(wrappers) < MaxWrappers
    /\ IF ~ValidMetricName(name)
       THEN /\ lastDeco' = [name |-> name, raised |-> TRUE, made |-> TRUE, diag |-> 0]
            /\ UNCHANGED <<wrappers, loggers>>
       ELSE /\ wrappers' =
                  Append(wrappers, [name |-> name, kind |-> kind, log_calls |-> lc])
            /\ loggers' =
                  [loggers EXCEPT ![name] = Provision(@, "DEBUG", fo, TRUE, fs)]
            /\ lastDeco' =
                  [name |-> name, raised |-> FALSE, made |-> TRUE,
                   diag |-> FileDiagnostics(fo, HasFile(loggers[name].handlers), fs)]
    /\ UNCHANGED <<calls, count, obsCount, now, loop, logVars, regVars, appVars>>

\* The except clause that handles e raised in the try body: in the async
\* wrapper "except asyncio.CancelledError" comes first, then
\* "except Exception"; anything else goes straight to finally.
HandlerPc(kind, e) ==
    IF kind = "async" /\ e.type = "CancelledError" THEN "logcancel"
    ELSE IF IsException(e) THEN "logerror"
    ELSE "finally"

\* Where the try body goes after the wrapped callable returned.
AfterReturn(lc) == IF lc THEN "logsuccess" ELSE "incsuccess"

\* start_time = time.perf_counter(); the try body begins.
Enter(s, w, a) ==
    /\ calls[s].pc = "idle"
    /\ w \in 1..Len(wrappers)
    /\ IF wrappers[w].kind = "async" THEN loop = 0 /\ loop' = s ELSE loop' = loop
    /\ calls' = [calls EXCEPT ![s] =
          [@ EXCEPT !.pc = IF wrappers[w].log_calls THEN "logstart" ELSE "invoke",
                    !.w = w, !.arg = a, !.start = now]]
    /\ UNCHANGED <<wrappers, lastDeco, count, obsCount, now,
                   loggers, logVars, regVars, appVars>>

\* One log call of the wrapper: it appends line and goes to next, or it
\* raises and the exception goes where fail says.
LogStep(s, at, ok, line, next, fail) ==
    /\ calls[s].pc = at
    /\ Running(s)
    /\ calls' = [calls EXCEPT ![s] =
          IF ok
          THEN [@ EXCEPT !.pc = next, !.logs = Append(@, line)]
          ELSE [@ EXCEPT !.pc = fail, !.exc = LogFailure, !.logFailed = TRUE]]
    /\ UNCHANGED <<wrappers, lastDeco, count, obsCount, now, loop,
                   loggers, logVars, regVars, appVars>>

\* log.info("started func execution"), inside the try body.
LogStart(s, ok) ==
    LogStep(s, "logstart", ok, <<"info", "started">>, "invoke",
            HandlerPc(KindOf(s), LogFailure))

\* The wrapped callable ends with outcome out.
Complete(c, kind, lc, out) ==
    IF out.kind = "return"
    THEN [c EXCEPT !.pc = AfterReturn(lc), !.val = out.val, !.fout = out]
    ELSE [c EXCEPT !.pc = HandlerPc(kind, out.exc), !.exc = out.exc, !.fout = out]

\* result = func(*args, **kwargs), or an await that does not suspend.
Invoke(s, out) ==
    /\ calls[s].pc = "invoke"
    /\ Running(s)
    /\ now' = now + 1
    /\ calls' = [calls EXCEPT ![s] =
          Complete([@ EXCEPT !.invoked = @ + 1, !.seenArg = calls[s].arg],
                   KindOf(s), WrapperOf(s).log_calls, out)]
    /\ UNCHANGED <<wrappers, lastDeco, count, obsCount, loop,
                   loggers, logVars, regVars, appVars>>

\* result = await func(*args, **kwargs): the callable suspends and the
\* event loop is free for other tasks.
Suspend(s) ==
    /\ calls[s].pc = "invoke"
    /\ Running(s)
    /\ KindOf(s) = "async"
    /\ loop' = 0
    /\ calls' = [calls EXCEPT ![s] =
          [@ EXCEPT !.pc = "suspended", !.invoked = @ + 1, !.seenArg = calls[s].arg]]
    /\ UNCHANGED <<wrappers, lastDeco, count, obsCount, now,
                   loggers, logVars, regVars, appVars>>

\* The suspended callable is resumed and ends with outcome out.
Resume(s, out) ==
    /\ calls[s].pc = "suspended"
    /\ loop = 0
    /\ loop' = s
    /\ now' = now + 1
    /\ calls' = [calls EXCEPT ![s] =
          Complete(@, KindOf(s), WrapperOf(s).log_calls, out)]
    /\ UNCHANGED <<wrappers, lastDeco, count, obsCount,
                   loggers, logVars, regVars, appVars>>

\* The suspended invocation is cancelled: CancelledError comes out of the await.
Cancel(s) == Resume(s, Raised(Cancellation))

\* log.info("func successfully ran"), still inside the try body.
LogSuccess(s, ok) ==
    LogStep(s, "logsuccess", ok, <<"info", "success">>, "incsuccess",
            HandlerPc(KindOf(s), LogFailure))

\* REQUEST_COUNT.labels(function_name=metric_name, status=st).inc()
\* (Faulty variant: the increment is awaited, and the task gives up the
\* event loop.)
IncStep_Yields(s, at, st) ==
    /\ calls[s].pc = at
    /\ Running(s)
    /\ count' = [count EXCEPT ![NameOf(s)][st] = @ + 1]
    /\ calls' = [calls EXCEPT ![s] =
          [@ EXCEPT !.pc = "finally", !.incs = Append(@, st)]]
    /\ loop' = IF KindOf(s) = "async" THEN 0 ELSE loop
    /\ UNCHANGED <<wrappers, lastDeco, obsCount, now,
                   loggers, logVars, regVars, appVars>>
IncStep(s, at, st) ==
    /\ calls[s].pc = at
    /\ Running(s)
    /\ count' = [count EXCEPT ![NameOf(s)][st] = @ + 1]
    /\ calls' = [calls EXCEPT ![s] =
          [@ EXCEPT !.pc = "finally", !.incs = Append(@, st)]]
    /\ UNCHANGED <<wrappers, lastDeco, obsCount, now, loop,
                   loggers, logVars, regVars, appVars>>

IncSuccess(s) == IncStep(s, "incsuccess", "success")

\* except asyncio.CancelledError: log.info("task cancelled"); an exception
\* raised inside an except clause leaves the try statement through finally.
LogCancel(s, ok) ==
    LogStep(s, "logcancel", ok, <<"info", "cancelled">>, "inccancel", "finally")
IncCancel(s) == IncStep(s, "inccancel", "cancelled")

\* except Exception: log.exception("error occurred")
LogError(s, ok) ==
    LogStep(s, "logerror", ok, <<"error", "error">>, "incerror", "finally")
IncError(s) == IncStep(s, "incerror", "error")

\* finally: REQUEST_LATENCY.labels(function_name=metric_name).observe(
\* perf_counter() - start_time); then the return or the raise completes.
\* (Faulty variant: the observation is the last statement of the try body.)
Finally_ObserveInTry(s) ==
    /\ calls[s].pc = "finally"
    /\ Running(s)
    /\ obsCount' = [obsCount EXCEPT ![NameOf(s)] =
          IF calls[s].exc = NoExc THEN @ + 1 ELSE @]
    /\ calls' = [calls EXCEPT ![s] =
          [@ EXCEPT !.pc = "done",
                    !.observed = IF calls[s].exc = NoExc
                                 THEN Append(@, now - calls[s].start) ELSE @,
                    !.res = IF calls[s].exc = NoExc
                            THEN Returned(calls[s].val)
                            ELSE Raised(calls[s].exc)]]
    /\ loop' = IF KindOf(s) = "async" THEN 0 ELSE loop
    /\ UNCHANGED <<wrappers, lastDeco, count, now, loggers, logVars, regVars, appVars>>
Finally(s) ==
    /\ calls[s].pc = "finally"
    /\ Running(s)
    /\ obsCount' = [obsCount EXCEPT ![NameOf(s)] = @ + 1]
    /\ calls' = [calls EXCEPT ![s] =
          [@ EXCEPT !.pc = "done",
                    !.observed = Append(@, now - calls[s].start),
                    !.res = IF calls[s].exc = NoExc
                            THEN Returned(calls[s].val)
                            ELSE Raised(calls[s].exc)]]
    /\ loop' = IF KindOf(s) = "async" THEN 0 ELSE loop
    /\ UNCHANGED <<wrappers, lastDeco, count, now,
                   loggers, logVars, regVars, appVars>>

\* ----------------------------------------------------- provisioning threads
LogThreads == 1..MaxLogThreads
\* The logical name the threads ask for.
LogNames == {NameA}
\* What mkdir and the opening of the log file can answer: success, the two
\* errors _setup_file_handler catches, and an error that is no OSError
\* (ValueError for a NUL character in log_dir).
FsAnswers == {"ok", "PermissionError", "OSError", "ValueError"}
OsErrors == {"PermissionError", "OSError"}

\* "except PermissionError" and "except OSError" of _setup_file_handler.
\* (Faulty variant: only PermissionError is caught.)
Caught_PermissionOnly(fs) == fs = "PermissionError"
Caught(fs) == fs \in OsErrors

IdleThread ==
    [pc |-> "idle", name |-> NameA, level |-> "DEBUG", fo |-> FALSE, json |-> TRUE,
     hasC |-> FALSE, hasF |-> FALSE,
     \* history of the thread's requests
     late |-> FALSE, fsSeen |-> "none", diag |-> 0,
     raisedOut |-> FALSE, ret |-> NameEmpty]

\* Logger(n, level=level, file_output=fo, json_serialize=json): __init__
\* runs without the lock.
LNew(t, n, level, fo, json) ==
    /\ lth[t].pc = "idle"
    /\ provisions < MaxProvisions
    /\ provisions' = provisions + 1
    /\ loggers' = [loggers EXCEPT ![n] = LoggerInit(@, level)]
    /\ lth' = [lth EXCEPT ![t] =
          [IdleThread EXCEPT !.pc = "setup", !.name = n, !.level = level, !.fo = fo,
                             !.json = json, !.late = (n \in configured)]]
    /\ UNCHANGED <<monVars, lockOwner, configured, regVars, appVars>>

\* setup(): "with _setup_lock:" is entered.
\* (Faulty variant: the handlers are set up without the lock.)
LAcquire_NoLock(t) ==
    /\ lth[t].pc = "setup"
    /\ lockOwner' = t
    /\ lth' = [lth EXCEPT ![t].pc = "check"]
    /\ UNCHANGED <<monVars, loggers, configured, provisions, regVars, appVars>>
LAcquire(t) ==
    /\ lth[t].pc = "setup"
    /\ lockOwner = 0
    /\ lockOwner' = t
    /\ lth' = [lth EXCEPT ![t].pc = "check"]
    /\ UNCHANGED <<monVars, loggers, configured, provisions, regVars, appVars>>

\* _setup_handlers: has_console and has_file are computed.
LCheck(t) ==
    /\ lth[t].pc = "check"
    /\ lth' = [lth EXCEPT ![t] =
          [@ EXCEPT !.pc = "console",
                    !.hasC = HasConsole(loggers[lth[t].name].handlers),
                    !.hasF = HasFile(loggers[lth[t].name].handlers)]]
    /\ UNCHANGED <<monVars, loggers, lockOwner, configured, provisions, regVars, appVars>>

\* _setup_handlers: the console handler.
LConsole(t) ==
    /\ lth[t].pc = "console"
    /\ loggers' = [loggers EXCEPT ![lth[t].name] =
          AddConsole(@, lth[t].hasC, lth[t].level)]
    /\ lth' = [lth EXCEPT ![t].pc = "file"]
    /\ UNCHANGED <<monVars, lockOwner, configured, provisions, regVars, appVars>>

\* _setup_handlers: the file handler; an error that _setup_file_handler
\* does not catch leaves setup() through the with statement.
LFile(t, fs) ==
    /\ lth[t].pc = "file"
    /\ LET tries == lth[t].fo /\ ~lth[t].hasF
           escapes == tries /\ fs # "ok" /\ ~Caught(fs)
       IN  /\ (~tries) => fs = "ok"
           /\ loggers' = [loggers EXCEPT ![lth[t].name] =
                 IF escapes THEN @
                 ELSE AddFile(@, lth[t].fo, lth[t].hasF, lth[t].level, lth[t].json, fs)]
           /\ lth' = [lth EXCEPT ![t] =
                 [@ EXCEPT !.pc = IF escapes THEN "release" ELSE "propagate",
                           !.fsSeen = IF tries THEN fs ELSE "none",
                           !.raisedOut = escapes,
                           !.diag = IF escapes THEN 0
                                    ELSE FileDiagnostics(lth[t].fo, lth[t].hasF, fs)]]
    /\ UNCHANGED <<monVars, lockOwner, configured, provisions, regVars, appVars>>

\* _setup_handlers: self.logger.propagate = False; return self.logger.
LPropagate(t) ==
    /\ lth[t].pc = "propagate"
    /\ loggers' = [loggers EXCEPT ![lth[t].name] = NoPropagate(@)]
    /\ lth' = [lth EXCEPT ![t] = [@ EXCEPT !.pc = "release", !.ret = lth[t].name]]
    /\ UNCHANGED <<monVars, lockOwner, configured, provisions, regVars, appVars>>

\* The with statement releases _setup_lock, on return and on an exception.
\* (Faulty variant: acquire() and release() around the call, without
\* try/finally: an exception leaves the lock held.)
LRelease_KeepOnRaise(t) ==
    /\ lth[t].pc = "release"
    /\ lockOwner' = IF lth[t].raisedOut THEN lockOwner ELSE 0
    /\ configured' = IF lth[t].raisedOut THEN configured
                     ELSE configured \cup {lth[t].name}
    /\ lth' = [lth EXCEPT ![t] = IdleThread]
    /\ UNCHANGED <<monVars, loggers, provisions, regVars, appVars>>
LRelease(t) ==
    /\ lth[t].pc = "release"
    /\ lockOwner' = 0
    /\ configured' = IF lth[t].raisedOut THEN configured
                     ELSE configured \cup {lth[t].name}
    /\ lth' = [lth EXCEPT ![t] = IdleThread]
    /\ UNCHANGED <<monVars, loggers, provisions, regVars, appVars>>

\* Threads provision loggers concurrently.
LoggerNext ==
    \/ \E t \in LogThreads, n \in LogNames, level \in Levels,
          fo \in BOOLEAN, json \in BOOLEAN : LNew(t, n, level, fo, json)
    \/ \E t \in LogThreads : LAcquire(t)
    \/ \E t \in LogThreads : LCheck(t)
    \/ \E t \in LogThreads : LConsole(t)
    \/ \E t \in LogThreads, fs \in FsAnswers : LFile(t, fs)
    \/ \E t \in LogThreads : LPropagate(t)
    \/ \E t \in LogThreads : LRelease(t)

\* log.info(...) of a wrapper through the logger of n that setup() has
\* returned: the record goes to the logger's handlers; _setup_lock is not
\* involved, whoever holds it.
LEmit(n) ==
    /\ n \in configured
    /\ loggers[n].records < MaxEmits
    /\ loggers' = [loggers EXCEPT ![n].records = @ + 1]
    /\ UNCHANGED <<monVars, logVars, regVars, appVars>>

\* The steps of thread t inside setup().
SetupStep(t) ==
    \/ LAcquire(t)
    \/ LCheck(t)
    \/ LConsole(t)
    \/ \E fs \in FsAnswers : LFile(t, fs)
    \/ LPropagate(t)
    \/ LRelease(t)

\* Threads provision loggers while records are emitted through them.
LockNext ==
    \/ LoggerNext
    \/ \E n \in LogNames : LEmit(n)

\* --------------------------------------------------------- metric builder
\* Metric names are sequences of words; "_" joins the words, so joining
\* two names is concatenation and an empty name has no words.
RegThreads == 1..MaxRegThreads
MetricKinds == {"counter", "gauge", "histogram", "summary"}
\* None; collectors are numbered from 1.
None == 0

\* The MetricSpecs the threads resolve: REQUEST_COUNT's, a metric with a
\* unit, the same metric without the unit, and one with a subsystem.
SpecCount == [ns |-> <<"notiq">>, sub |-> <<>>, name |-> <<"requests", "total">>,
              unit |-> <<>>]
SpecUnit == [ns |-> <<"notiq">>, sub |-> <<>>, name |-> <<"latency">>,
             unit |-> <<"seconds">>]
SpecPlain == [ns |-> <<"notiq">>, sub |-> <<>>, name |-> <<"latency">>,
              unit |-> <<>>]
SpecSub == [ns |-> <<>>, sub |-> <<"notiq">>, name |-> <<"latency", "seconds">>,
            unit |-> <<"seconds">>]
MetricSpecs == {SpecCount, SpecUnit, SpecPlain, SpecSub}

\* MetricBuilder._get_full_name: "_".join(p for p in parts if p)
GetFullName(m) == m.ns \o m.sub \o m.name

\* str.endswith("_" + suffix)
EndsWith(full, suffix) ==
    /\ Len(full) > Len(suffix)
    /\ SubSeq(full, Len(full) - Len(suffix) + 1, Len(full)) = suffix

\* The name the metric class gives the collector it builds from the
\* keyword arguments: namespace, subsystem and name joined, a counter's
\* "_total" dropped, the unit appended unless the name ends with it.
CollectorName(kind, m) ==
    LET joined == m.ns \o m.sub \o m.name
        base == IF kind = "counter" /\ EndsWith(joined, <<"total">>)
                THEN SubSeq(joined, 1, Len(joined) - 1)
                ELSE joined
    IN  IF m.unit # <<>> /\ ~EndsWith(base, m.unit) THEN base \o m.unit ELSE base

\* The time series a collector of a kind exposes besides its own name.
Suffixes(kind) ==
    CASE kind = "counter" -> {"total", "created"}
      [] kind = "summary" -> {"sum", "count", "created"}
      [] kind = "histogram" -> {"bucket", "sum", "count", "created"}
      [] OTHER -> {}

\* The names the registry files a collector under.
CollectorNames(kind, m) ==
    {CollectorName(kind, m)}
    \cup {CollectorName(kind, m) \o <<x>> : x \in Suffixes(kind)}

\* registry._names_to_collectors as a set of <<name, collector>> pairs.
Registered == {p[1] : p \in registry}
\* existing_collectors[full_name], and .get(full_name): None when absent.
Get(key) == IF key \in Registered
            THEN (CHOOSE p \in registry : p[1] = key)[2]
            ELSE None

\* metric_cls(**kwargs) raises ValueError: the name is empty, or one of
\* the collector's names is registered already.
ConstructFails(kind, m) ==
    \/ m.name = <<>>
    \/ CollectorNames(kind, m) \cap Registered # {}

\* The documentation, labelnames and buckets a caller asks for.
Kwargs == {"doc1", "doc2-labels-buckets"}

IdleResolve ==
    [pc |-> "idle", spec |-> SpecCount, kind |-> "counter", kw |-> "doc1",
     result |-> None,
     \* history: whether the key was absent when the resolve began, the
     \* handle the registry held under the key then, what had been returned
     \* for the key and for the same spec and kind by then, and whether the
     \* constructor raised
     fresh |-> FALSE, had |-> None, seen |-> {}, prior |-> {}, conflict |-> FALSE]

\* What the resolves that have ended returned for a key, and for a spec
\* and kind.
ReturnedForKey(key) == {p[2] : p \in {q \in returned : q[1] = key}}
ReturnedForSpec(m, kind) ==
    {p[2] : p \in {q \in returned : q[3] = m /\ q[4] = kind}}

\* MetricBuilder(...).counter() / gauge() / histogram() / summary():
\* _get_or_create computes full_name.
RBegin(t, m, kind, kw) ==
    /\ rth[t].pc \in {"idle", "done"}
    /\ resolves < MaxResolves
    /\ resolves' = resolves + 1
    /\ rth' = [rth EXCEPT ![t] =
          [pc |-> "lookup", spec |-> m, kind |-> kind, kw |-> kw, result |-> None,
           fresh |-> GetFullName(m) \notin Registered,
           had |-> Get(GetFullName(m)),
           seen |-> ReturnedForKey(GetFullName(m)),
           prior |-> ReturnedForSpec(m, kind),
           conflict |-> FALSE]]
    /\ UNCHANGED <<monVars, loggers, logVars, appVars, registry, handles, returned>>

\* "if full_name in existing_collectors: return existing_collectors[full_name]"
\* (Faulty variant: the existing collector is returned only when it is of
\* the kind asked for.)
RLookup_SameKindOnly(t) ==
    /\ rth[t].pc = "lookup"
    /\ LET key == GetFullName(rth[t].spec)
       IN  IF key \in Registered /\ handles[Get(key)].kind = rth[t].kind
           THEN /\ rth' = [rth EXCEPT ![t] = [@ EXCEPT !.pc = "done", !.result = Get(key)]]
                /\ returned' =
                      returned \cup {<<key, Get(key), rth[t].spec, rth[t].kind>>}
           ELSE /\ rth' = [rth EXCEPT ![t].pc = "construct"]
                /\ UNCHANGED returned
    /\ UNCHANGED <<monVars, loggers, logVars, appVars, registry, handles, resolves>>
RLookup(t) ==
    /\ rth[t].pc = "lookup"
    /\ LET key == GetFullName(rth[t].spec)
       IN  IF key \in Registered
           THEN /\ rth' = [rth EXCEPT ![t] = [@ EXCEPT !.pc = "done", !.result = Get(key)]]
                /\ returned' =
                      returned \cup {<<key, Get(key), rth[t].spec, rth[t].kind>>}
           ELSE /\ rth' = [rth EXCEPT ![t].pc = "construct"]
                /\ UNCHANGED returned
    /\ UNCHANGED <<monVars, loggers, logVars, appVars, registry, handles, resolves>>

\* "return metric_cls(**kwargs)": the collector registers itself, under
\* the registry's lock, or the constructor raises ValueError.
RConstruct(t) ==
    /\ rth[t].pc = "construct"
    /\ LET m == rth[t].spec
           kind == rth[t].kind
           h == Len(handles) + 1
       IN  IF ConstructFails(kind, m)
           THEN /\ rth' = [rth EXCEPT ![t] =
                                [@ EXCEPT !.pc = "requery", !.conflict = TRUE]]
                /\ UNCHANGED <<registry, handles, returned>>
           ELSE /\ registry' = registry \cup {<<n, h>> : n \in CollectorNames(kind, m)}
                /\ handles' = Append(handles, [kind |-> kind, spec |-> m,
                                                kw |-> rth[t].kw])
                /\ rth' = [rth EXCEPT ![t] = [@ EXCEPT !.pc = "done", !.result = h]]
                /\ returned' = returned \cup {<<GetFullName(m), h, m, kind>>}
    /\ UNCHANGED <<monVars, loggers, logVars, appVars, resolves>>

\* "except ValueError: existing = ....get(full_name); return existing"
RRequery(t) ==
    /\ rth[t].pc = "requery"
    /\ LET key == GetFullName(rth[t].spec)
       IN  /\ rth' = [rth EXCEPT ![t] = [@ EXCEPT !.pc = "done", !.result = Get(key)]]
           /\ returned' =
                 returned \cup {<<key, Get(key), rth[t].spec, rth[t].kind>>}
    /\ UNCHANGED <<monVars, loggers, logVars, appVars, registry, handles, resolves>>

\* Threads resolve metrics concurrently on one registry.
BuilderNext ==
    \/ \E t \in RegThreads, m \in MetricSpecs, kind \in MetricKinds, kw \in Kwargs :
          RBegin(t, m, kind, kw)
    \/ \E t \in RegThreads : RLookup(t)
    \/ \E t \in RegThreads : RConstruct(t)
    \/ \E t \in RegThreads : RRequery(t)

\* ----------------------------------------------- functions of one argument
\* The result of a function a specification applies to its input: nothing
\* yet, a value returned, or an exception raised.
NoInput == <<>>
NoOutput == [done |-> FALSE, raised |-> FALSE, val |-> <<>>]
Returns(v) == [done |-> TRUE, raised |-> FALSE, val |-> v]
Raises == [done |-> TRUE, raised |-> TRUE, val |-> <<>>]

\* The strings validate_metric_name is applied to: up to MaxRuns runs of
\* the classes letter, digit, underscore, newline, hyphen and other, of
\* the lengths that matter to {0,63}; and a value that is not a string.
NameClasses == {"L", "D", "U", "N", "H", "X"}
RunLens == {1, MaxTail, MaxTail + 1}
NameRuns == NameClasses \X RunLens
NameInputs ==
    UNION {[1..k -> NameRuns] : k \in 0..MaxRuns} \cup {NotAString}

\* validate_metric_name(name): "if not isinstance(name, str) or not
\* VALID_NAME_PATTERN.match(name): raise ValueError(...)"; "return name".
ValidateMetricName(name) ==
    IF ValidMetricName(name) THEN Returns(name) ELSE Raises

CallValidate ==
    /\ ~output.done
    /\ output' = ValidateMetricName(input)
    /\ UNCHANGED <<monVars, loggers, logVars, regVars, input, cfgVars>>

\* The strings sanitize_log_filename is applied to: up to MaxLen characters
\* out of an ASCII letter, a letter outside ASCII (\w matches the word
\* characters of every script in a str pattern), the underscore, the
\* hyphen, the dot, the slash, the backslash and the space.
WordChars == {"a", "é", "_"}
PathChars == WordChars \cup {"-", ".", "/", "\\", " "}
PathInputs == UNION {[1..k -> PathChars] : k \in 0..MaxLen}

\* str.split("/")
RECURSIVE Split(_)
Split(s) ==
    IF s = <<>> THEN << <<>> >>
    ELSE LET r == Split(Tail(s))
         IN  IF Head(s) = "/"
             THEN << <<>> >> \o r
             ELSE << <<Head(s)>> \o r[1] >> \o Tail(r)

\* Path(name).name with POSIX paths: the last of the components between
\* slashes that is neither empty nor ".", or "" when there is none.
IsComponent(x) == x # <<>> /\ x # <<".">>
PathName(s) ==
    LET kept == SelectSeq(Split(s), IsComponent)
    IN  IF kept = <<>> THEN <<>> ELSE kept[Len(kept)]

\* re.sub(r"[^\w\-.]", "_", safe)
\* (Faulty variant: only the slash is replaced.)
ReSub_SlashOnly(s) ==
    [i \in 1..Len(s) |-> IF s[i] # "/" THEN s[i] ELSE "_"]
ReSub(s) ==
    [i \in 1..Len(s) |-> IF s[i] \in WordChars \cup {"-", "."} THEN s[i] ELSE "_"]

\* "return safe if safe else 'default'"
\* (Faulty variant: the empty result is returned as it is.)
OrDefault_Keep(safe) == safe
OrDefault(safe) ==
    IF safe # <<>> THEN safe ELSE <<"d", "e", "f", "a", "u", "l", "t">>

SanitizeLogFilename(name) == OrDefault(ReSub(PathName(name)))

CallSanitize ==
    /\ ~output.done
    /\ output' = Returns(SanitizeLogFilename(input))
    /\ UNCHANGED <<monVars, loggers, logVars, regVars, input, cfgVars>>

\* -------------------------------------------------------------- notiq_task
\* A keyword-argument dict is a function from the keys supplied to values.
OptionKeys == {"acks_late", "reject_on_worker_lost"}
KwKeys == OptionKeys \cup {"name"}
KwValues == {"True", "False", "v"}
KwDicts == UNION {[K -> KwValues] : K \in SUBSET KwKeys}
TaskArgs == {<<>>, <<"func">>}
TaskInputs == [args : TaskArgs, kwargs : KwDicts]

\* dict.setdefault(k, v)
\* (Faulty variant: kwargs[k] = v.)
SetDefault_Overwrite(d, k, v) ==
    [x \in DOMAIN d \cup {k} |-> IF x = k THEN v ELSE d[x]]
SetDefault(d, k, v) ==
    IF k \in DOMAIN d THEN d
    ELSE [x \in DOMAIN d \cup {k} |-> IF x = k THEN v ELSE d[x]]

\* notiq_task(*args, **kwargs): the positional and keyword arguments that
\* shared_task is called with.
NotiqTask(args, kwargs) ==
    [args |-> args,
     kwargs |-> SetDefault(SetDefault(kwargs, "acks_late", "True"),
                           "reject_on_worker_lost", "True")]

CallNotiqTask ==
    /\ ~output.done
    /\ output' = Returns(NotiqTask(input.args, input.kwargs))
    /\ UNCHANGED <<monVars, loggers, logVars, regVars, input, cfgVars>>

\* ----------------------------------------------------------- configuration
\* A URL is its scheme, its host and whether it spells out port and path;
\* NotAUrl is a string that is no URL; Unset is None or a variable that is
\* not set.
Schemes == {"redis", "amqp", "http"}
Unset == [scheme |-> "unset", host |-> "", full |-> FALSE]
NotAUrl == [scheme |-> "none", host |-> "", full |-> FALSE]
Urls == [scheme : Schemes, host : {"h"}, full : {FALSE}] \cup {NotAUrl}
\* Task directories: one that holds a task module, one that holds none.
Dirs == {"tasks", "empty"}
NoDir == "unset"

\* Config.BROKER_URL: AmqpDsn | RedisDsn | None
ValidBroker(u) == u = Unset \/ u.scheme \in {"redis", "amqp"}
\* Config.RESULT_BACKEND: RedisDsn | None
ValidBackend(u) == u = Unset \/ u.scheme = "redis"
\* Config(...) validates all the fields or raises ValidationError.
\* (Faulty variant: the result backend is not validated.)
ConfigValid_BrokerOnly(b, r) == ValidBroker(b)
ConfigValid(b, r) == ValidBroker(b) /\ ValidBackend(r)

\* str(settings.BROKER_URL): a validated RedisDsn carries the default port
\* and path.
Str(u) == IF u.scheme = "redis" THEN [u EXCEPT !.full = TRUE] ELSE u

\* autodiscover_tasks(task_dir)
Modules(d) == IF d = "tasks" THEN <<"tasks.a">> ELSE <<>>

\* create_celery_app(): broker, backend and include of celery_app.conf.
DefaultUrl == [scheme |-> "redis", host |-> "localhost", full |-> TRUE]
DefaultConf ==
    [broker_url |-> DefaultUrl, result_backend |-> DefaultUrl,
     include |-> <<"notiq.tasks.jobs">>]

\* The three "if settings.X: celery_app.conf.update(...)" blocks.
Apply(c, b, r, d) ==
    [broker_url |-> IF b # Unset THEN Str(b) ELSE c.broker_url,
     result_backend |-> IF r # Unset THEN Str(r) ELSE c.result_backend,
     include |-> IF d # NoDir THEN c.include \o Modules(d) ELSE c.include]

EmptyEnv == [BROKER_URL |-> Unset, RESULT_BACKEND |-> Unset, TASK_DIR |-> NoDir]
Envs == [BROKER_URL : Urls \cup {Unset}, RESULT_BACKEND : Urls \cup {Unset},
         TASK_DIR : Dirs \cup {NoDir}]
NoCfg ==
    [imported |-> FALSE, calls |-> 0, last |-> "none", raised |-> FALSE,
     autoValid |-> FALSE,
     \* history: the settings the last call was given, and celery_app.conf
     \* and the environment before it
     args |-> EmptyEnv, before |-> DefaultConf, envBefore |-> EmptyEnv]

\* import notiq: _auto_configure_from_env() reads the settings from the
\* environment; "except ValidationError: pass".
AutoConfigureFromEnv ==
    /\ ~cfg.imported
    /\ conf' = IF ConfigValid(env.BROKER_URL, env.RESULT_BACKEND)
               THEN Apply(conf, env.BROKER_URL, env.RESULT_BACKEND, env.TASK_DIR)
               ELSE conf
    /\ cfg' = [cfg EXCEPT !.imported = TRUE, !.last = "auto", !.raised = FALSE,
                          !.autoValid = (ValidBroker(env.BROKER_URL)
                                         /\ ValidBackend(env.RESULT_BACKEND)),
                          !.args = env, !.before = conf, !.envBefore = env]
    /\ UNCHANGED <<monVars, loggers, logVars, regVars, fnVars, env>>

\* NotiqConfig(b, r, d): the environment variables are set, then the
\* settings are validated ("except ValidationError as e: raise
\* ValueError(...) from e") and applied.
NotiqConfig(b, r, d) ==
    /\ cfg.imported
    /\ cfg.calls < MaxConfigs
    /\ env' = [BROKER_URL |-> b, RESULT_BACKEND |-> r, TASK_DIR |-> d]
    /\ conf' = IF ConfigValid(b, r) THEN Apply(conf, b, r, d) ELSE conf
    /\ cfg' = [cfg EXCEPT !.calls = @ + 1, !.last = "explicit",
                          !.raised = ~ConfigValid(b, r),
                          !.args = [BROKER_URL |-> b, RESULT_BACKEND |-> r,
                                    TASK_DIR |-> d],
                          !.before = conf, !.envBefore = env]
    /\ UNCHANGED <<monVars, loggers, logVars, regVars, fnVars>>

ValidateNext == CallValidate
SanitizeNext == CallSanitize
TaskNext == CallNotiqTask
ConfigNext ==
    \/ AutoConfigureFromEnv
    \/ \E b \in Urls, r \in Urls, d \in Dirs : NotiqConfig(b, r, d)

\* The steps of the invocations of the callers in S.
CallNext(S) ==
    \/ \E s \in S, w \in 1..MaxWrappers, a \in ArgLists : Enter(s, w, a)
    \/ \E s \in S, ok \in BOOLEAN : LogStart(s, ok)
    \/ \E s \in S, out \in FuncOutcomes : Invoke(s, out)
    \/ \E s \in S : Suspend(s)
    \/ \E s \in S, out \in FuncOutcomes : Resume(s, out)
    \/ \E s \in S : Cancel(s)
    \/ \E s \in S, ok \in BOOLEAN : LogSuccess(s, ok)
    \/ \E s \in S : IncSuccess(s)
    \/ \E s \in S, ok \in BOOLEAN : LogCancel(s, ok)
    \/ \E s \in S : IncCancel(s)
    \/ \E s \in S, ok \in BOOLEAN : LogError(s, ok)
    \/ \E s \in S : IncError(s)
    \/ \E s \in S : Finally(s)

\* Functions are decorated under valid names, with the default
\* file_output=False, and invoked concurrently.
MonitorNext ==
    \/ \E name \in GoodNames, kind \in Kinds, lc \in BOOLEAN :
          Monitor(name, kind, lc, FALSE, "ok")
    \/ CallNext(Slots)

\* Functions are decorated under any name, valid or not, with and without
\* file output, and invoked by one caller.
DecorateNext ==
    \/ \E name \in MetricNames, kind \in Kinds, lc \in BOOLEAN, fo \in BOOLEAN :
          \E fs \in (IF fo THEN {"ok", "PermissionError"} ELSE {"ok"}) :
             Monitor(name, kind, lc, fo, fs)
    \/ CallNext({1})

\* The monitoring layer before any call: no wrapper, no logger set up,
\* an empty registry.
MonitoringStart ==
    /\ wrappers = <<>>
    /\ lastDeco = NoDeco
    /\ calls = [s \in Slots |-> IdleCall]
    /\ count = [n \in MetricNames |-> [st \in Statuses |-> 0]]
    /\ obsCount = [n \in MetricNames |-> 0]
    /\ now = 0
    /\ loop = 0
    /\ loggers = [n \in MetricNames |-> NewLogger]
    /\ lockOwner = 0
    /\ lth = [t \in LogThreads |-> IdleThread]
    /\ configured = {}
    /\ provisions = 0
    /\ registry = {}
    /\ handles = <<>>
    /\ rth = [t \in RegThreads |-> IdleResolve]
    /\ resolves = 0
    /\ returned = {}

\* No function is being applied.
FnIdle == input = NoInput /\ output = NoOutput
\* celery_app as create_celery_app() made it; no NOTIQ_* setting.
ConfigStart == env = EmptyEnv /\ conf = DefaultConf /\ cfg = NoCfg

Init == MonitoringStart /\ FnIdle /\ ConfigStart
InitValidate ==
    MonitoringStart /\ ConfigStart /\ input \in NameInputs /\ output = NoOutput
InitSanitize ==
    MonitoringStart /\ ConfigStart /\ input \in PathInputs /\ output = NoOutput
InitTask ==
    MonitoringStart /\ ConfigStart /\ input \in TaskInputs /\ output = NoOutput
InitConfig ==
    MonitoringStart /\ FnIdle /\ env \in Envs /\ conf = DefaultConf /\ cfg = NoCfg

SpecMonitor == Init /\ [][MonitorNext]_vars
SpecDecorate == Init /\ [][DecorateNext]_vars
SpecLogger == Init /\ [][LoggerNext]_vars
\* Every thread that can take a step of setup() eventually takes one.
SpecLock ==
    Init /\ [][LockNext]_vars /\ \A t \in LogThreads : WF_vars(SetupStep(t))
SpecBuilder == Init /\ [][BuilderNext]_vars
SpecValidate == InitValidate /\ [][ValidateNext]_vars
SpecSanitize == InitSanitize /\ [][SanitizeNext]_vars
SpecTask == InitTask /\ [][TaskNext]_vars
SpecConfig == InitConfig /\ [][ConfigNext]_vars

\* ------------------------------------------------------------ properties
Done(s) == calls[s].pc = "done"

\* The counters and the histogram hold what the invocations recorded.
CountersMatchHistory ==
    \A n \in MetricNames :
       /\ \A st \in Statuses :
             count[n][st] =
                Cardinality({<<s, i>> \in Slots \X (1..2) :
                    /\ calls[s].w # 0
                    /\ NameOf(s) = n
                    /\ i <= Len(calls[s].incs)
                    /\ calls[s].incs[i] = st})
       /\ obsCount[n] =
             Cardinality({s \in Slots :
                 calls[s].w # 0 /\ NameOf(s) = n /\ calls[s].observed # <<>>})

\* C1: a decorated call invokes the wrapped callable exactly once, with
\* the caller's arguments, and ends with the outcome of the wrapped
\* callable (the value returned, the exception raised, the cancellation),
\* whatever the wrapper's own log calls, counter updates and observation do.
C1_DecoratedCallIsTransparent ==
    \A s \in Slots :
       Done(s) =>
          /\ calls[s].invoked = 1
          /\ calls[s].seenArg = calls[s].arg
          /\ calls[s].res = calls[s].fout

\* What remains of C1 when no log call of the invocation raises.
TransparentWhenLoggingWorks ==
    \A s \in Slots :
       (Done(s) /\ ~calls[s].logFailed) =>
          /\ calls[s].invoked = 1
          /\ calls[s].seenArg = calls[s].arg
          /\ calls[s].res = calls[s].fout

HasLog(s, line) == \E i \in 1..Len(calls[s].logs) : calls[s].logs[i] = line
HasLogLevel(s, level) == \E i \in 1..Len(calls[s].logs) : calls[s].logs[i][1] = level

\* C4: when a suspended invocation of a decorated async callable is
\* cancelled, the wrapper increments the cancelled counter once and no
\* other counter, logs the cancellation at info level and nothing at error
\* level, records the latency and re-raises the cancellation.
C4_CancellationCountedAndRedelivered ==
    \A s \in Slots :
       (Done(s) /\ KindOf(s) = "async" /\ calls[s].fout = Raised(Cancellation)) =>
          /\ calls[s].incs = <<"cancelled">>
          /\ HasLog(s, <<"info", "cancelled">>)
          /\ ~HasLogLevel(s, "error")
          /\ Len(calls[s].observed) = 1
          /\ calls[s].res = Raised(Cancellation)

\* What remains of C4 when the "task cancelled" log call does not raise.
CancellationWhenLoggingWorks ==
    \A s \in Slots :
       (/\ Done(s) /\ KindOf(s) = "async" /\ calls[s].fout = Raised(Cancellation)
        /\ ~calls[s].logFailed) =>
          /\ calls[s].incs = <<"cancelled">>
          /\ HasLog(s, <<"info", "cancelled">>)
          /\ ~HasLogLevel(s, "error")
          /\ Len(calls[s].observed) = 1
          /\ calls[s].res = Raised(Cancellation)

\* C5: when the wrapped callable raises an exception e, the decorated call
\* raises the same e, increments the error counter of its metric name
\* once and no other counter, and records one latency observation.
C5_ErrorCountedAndReraised ==
    \A s \in Slots :
       (Done(s) /\ calls[s].fout.kind = "raise" /\ IsException(calls[s].fout.exc)) =>
          /\ calls[s].res = calls[s].fout
          /\ calls[s].incs = <<"error">>
          /\ Len(calls[s].observed) = 1

\* What remains of C5 when the log.exception call does not raise.
ErrorWhenLoggingWorks ==
    \A s \in Slots :
       (/\ Done(s) /\ calls[s].fout.kind = "raise" /\ IsException(calls[s].fout.exc)
        /\ ~calls[s].logFailed) =>
          /\ calls[s].res = calls[s].fout
          /\ calls[s].incs = <<"error">>
          /\ Len(calls[s].observed) = 1

\* C6: when the wrapped callable of a decorated synchronous function
\* returns v, the decorated call returns v, increments the success counter
\* of its metric name once and no other counter, and records one latency
\* observation.
C6_SuccessCountedAndReturned ==
    \A s \in Slots :
       (Done(s) /\ KindOf(s) = "sync" /\ calls[s].fout.kind = "return") =>
          /\ calls[s].res = calls[s].fout
          /\ calls[s].incs = <<"success">>
          /\ Len(calls[s].observed) = 1

\* What remains of C6 when the "func successfully ran" log call does not raise.
SuccessWhenLoggingWorks ==
    \A s \in Slots :
       (/\ Done(s) /\ KindOf(s) = "sync" /\ calls[s].fout.kind = "return"
        /\ ~calls[s].logFailed) =>
          /\ calls[s].res = calls[s].fout
          /\ calls[s].incs = <<"success">>
          /\ Len(calls[s].observed) = 1

\* C7: every invocation that has ended, by return, exception or
\* cancellation, sync or async, with or without a failed log call, has
\* recorded exactly one latency observation under its metric name, and no
\* invocation records one before it ends.
C7_OneObservationOnEveryExit ==
    /\ \A s \in Slots :
          IF Done(s) THEN Len(calls[s].observed) = 1 ELSE calls[s].observed = <<>>
    /\ \A n \in MetricNames :
          obsCount[n] =
             Cardinality({s \in Slots : Done(s) /\ NameOf(s) = n})

\* An async invocation whose log call raised in the cancellation handler
\* has ended with its observation, next to a sync one that raised a
\* BaseException.
C7_Witness ==
    \E s, u \in Slots :
       /\ Done(s) /\ Done(u)
       /\ calls[s].logFailed
       /\ calls[s].fout = Raised(Cancellation)
       /\ KindOf(u) = "sync"
       /\ calls[u].fout = Raised([type |-> "KeyboardInterrupt", src |-> "func"])
       /\ Len(calls[s].observed) = 1
       /\ Len(calls[u].observed) = 1

\* C8: monitor() with a name that fails validation raises at decoration
\* time: there is no wrapper under such a name, so no invocation goes
\* through one, no logger exists for the name and no counter or histogram
\* child of the name was touched; no invocation ends with a validation
\* error.
C8_InvalidNameFailsAtDecoration ==
    /\ (lastDeco.made /\ ~ValidMetricName(lastDeco.name)) => lastDeco.raised
    /\ \A w \in 1..Len(wrappers) : ValidMetricName(wrappers[w].name)
    /\ \A s \in Slots : calls[s].w # 0 => ValidMetricName(NameOf(s))
    /\ \A n \in MetricNames :
          ~ValidMetricName(n) =>
             /\ ~loggers[n].exists
             /\ \A st \in Statuses : count[n][st] = 0
             /\ obsCount[n] = 0
    /\ \A s \in Slots :
          calls[s].exc # NoExc => calls[s].exc.src \in {"func", "log", "cancel"}

\* monitor() has just raised for an over-long name, after a function was
\* decorated under a valid name and invoked.
C8_Witness ==
    /\ lastDeco.made
    /\ lastDeco.name = NameTooLong
    /\ lastDeco.raised
    /\ Len(wrappers) = 1
    /\ Done(1)

\* C2: when several threads resolve the same MetricSpec with the same kind
\* and the registry held no entry for the key when each of them began,
\* all of them get the same handle, it is a handle (not None), and it is
\* registered under the key.
C2_ConcurrentResolvesShareOneHandle ==
    \A t, u \in RegThreads :
       (/\ rth[t].pc = "done" /\ rth[u].pc = "done"
        /\ rth[t].spec = rth[u].spec /\ rth[t].kind = rth[u].kind
        /\ rth[t].fresh /\ rth[u].fresh) =>
          /\ rth[t].result = rth[u].result
          /\ rth[t].result # None
          /\ Get(GetFullName(rth[t].spec)) = rth[t].result

\* What remains of C2 for the specs whose key is the name of the collector
\* and which no other collector's names collide with: here all resolves
\* are of SpecCount or of SpecPlain as a gauge.
OneHandleWhenKeyIsCollectorName ==
    (\A h \in 1..Len(handles) :
        \/ handles[h].spec = SpecCount
        \/ handles[h].spec = SpecPlain /\ handles[h].kind = "gauge") =>
       \A t, u \in RegThreads :
          (/\ rth[t].pc = "done" /\ rth[u].pc = "done"
           /\ rth[t].spec = rth[u].spec /\ rth[t].kind = rth[u].kind
           /\ rth[t].spec \in {SpecCount, SpecPlain}
           /\ rth[t].spec = SpecPlain => rth[t].kind = "gauge"
           /\ rth[t].fresh /\ rth[u].fresh) =>
             /\ rth[t].result = rth[u].result
             /\ rth[t].result # None
             /\ Get(GetFullName(rth[t].spec)) = rth[t].result

\* C3: whatever the interleaving of the threads that call
\* Logger(n, ...).setup(), the logger of n never has more than one
\* console handler nor more than one rotating file handler.
C3_AtMostOneHandlerOfEachKind ==
    \A n \in MetricNames :
       /\ NumHandlers(loggers[n].handlers, "console") <= 1
       /\ NumHandlers(loggers[n].handlers, "file") <= 1

\* Two threads asked for the same name with file output before either had
\* set it up; one has attached both handlers and still holds the lock, the
\* other waits for it.
C3_Witness ==
    \E t, u \in LogThreads :
       /\ t # u
       /\ lth[t].name = lth[u].name
       /\ lth[t].pc = "release" /\ lth[u].pc = "setup"
       /\ lth[t].fo /\ lth[u].fo
       /\ ~lth[t].late /\ ~lth[u].late
       /\ HasConsole(loggers[lth[t].name].handlers)
       /\ HasFile(loggers[lth[t].name].handlers)

\* The steps of thread t's request, when the request began after a setup()
\* for its name had returned.
LateStep(t) == lth'[t] # lth[t] /\ lth'[t].pc # "idle" /\ lth'[t].late

\* C9: once a logger has been provisioned, no step of a later
\* provisioning request for its name changes the logger (its handlers,
\* level and propagation flag).
C9_LaterProvisioningIsNoOp ==
    [][\A t \in LogThreads :
          LateStep(t) => loggers'[lth'[t].name] = loggers[lth'[t].name]]_vars

IsPrefix(a, b) == Len(a) <= Len(b) /\ SubSeq(b, 1, Len(a)) = a

\* C9 as amended: a later provisioning request for a provisioned logger
\* keeps every attached handler and the propagation flag, adds no console
\* handler, adds at most a file handler and only when it asks for file
\* output and none is attached, and changes the level only to the level
\* it asks for; it changes nothing when it asks for the level the logger
\* has and either for no file output or for one that is attached already;
\* it returns the logger of its name.
C9_LaterProvisioningKeepsHandlers ==
    [][\A t \in LogThreads :
          LateStep(t) =>
             LET old == loggers[lth'[t].name]
                 new == loggers'[lth'[t].name]
                 req == lth'[t]
             IN  /\ IsPrefix(old.handlers, new.handlers)
                 /\ NumHandlers(new.handlers, "console") = 1
                 /\ NumHandlers(old.handlers, "console") = 1
                 /\ new.handlers # old.handlers =>
                       /\ req.fo
                       /\ ~HasFile(old.handlers)
                       /\ new.handlers =
                             Append(old.handlers, FileHandler(req.level, req.json))
                 /\ new.propagate = old.propagate
                 /\ new.propagate = FALSE
                 /\ new.level \in {old.level, req.level}
                 /\ (req.level = old.level /\ (~req.fo \/ HasFile(old.handlers)))
                       => new = old
                 /\ req.pc = "release" /\ ~req.raisedOut => req.ret = req.name]_vars

\* A request made after the logger was provisioned at level DEBUG without
\* a file has set the level to INFO and attached a file handler.
C9_Witness ==
    \E t \in LogThreads :
       /\ lth[t].late
       /\ lth[t].pc = "release"
       /\ lth[t].level = "INFO"
       /\ lth[t].fo /\ ~lth[t].hasF
       /\ loggers[lth[t].name].level = "INFO"
       /\ loggers[lth[t].name].handlers =
             <<ConsoleHandler("DEBUG"), FileHandler("INFO", lth[t].json)>>

\* C10: when file output is requested and mkdir or the opening of the
\* file fails with PermissionError or another OSError, setup() does not
\* raise: it goes on to return the logger, which has its console handler
\* and no file handler, and one diagnostic was written to stderr.
C10_FileFailureDegradesToConsole ==
    \A t \in LogThreads :
       (lth[t].pc \in {"propagate", "release"} /\ lth[t].fsSeen \in OsErrors) =>
          /\ ~lth[t].raisedOut
          /\ lth[t].diag = 1
          /\ NumHandlers(loggers[lth[t].name].handlers, "console") = 1
          /\ ~HasFile(loggers[lth[t].name].handlers)
          /\ lth[t].pc = "release" =>
                /\ lth[t].ret = lth[t].name
                /\ ~loggers[lth[t].name].propagate

\* A first request with file output met an OSError that is no
\* PermissionError and is about to return.
C10_Witness ==
    \E t \in LogThreads :
       /\ lth[t].pc = "release"
       /\ lth[t].fo
       /\ ~lth[t].late
       /\ lth[t].fsSeen = "OSError"
       /\ lth[t].ret = lth[t].name

\* ------------------------------------------- properties of the metric builder
RDone(t) == rth[t].pc = "done"

\* C11: a resolve that begins after a resolve of the identical spec and
\* kind has returned gets the handle that one got, and it is a handle.
C11_ResolveAgainReturnsSameHandle ==
    \A t \in RegThreads :
       (RDone(t) /\ rth[t].prior # {}) =>
          /\ rth[t].prior = {rth[t].result}
          /\ rth[t].result # None

\* C18: a resolve never returns None, and when its constructor raised,
\* the handle it returns is the one registered under its key.
C18_NeverReturnsNone ==
    \A t \in RegThreads :
       RDone(t) =>
          /\ rth[t].result # None
          /\ rth[t].conflict => rth[t].result = Get(GetFullName(rth[t].spec))

\* The steps of a resolve that found its key registered when it began.
HitStep(t) == rth'[t] # rth[t] /\ rth'[t].pc # "idle" /\ rth'[t].had # None

\* C19: a resolve whose key is registered when it begins returns the
\* registered handle, whatever kind and keyword arguments it asks for; it
\* never reaches the constructor and leaves the registry and the set of
\* collectors as they are.
C19_ExistingHandleReturnedWhateverTheKind ==
    [][\A t \in RegThreads :
          HitStep(t) =>
             /\ registry' = registry
             /\ handles' = handles
             /\ rth'[t].pc \in {"lookup", "done"}
             /\ rth'[t].pc = "done" => rth'[t].result = rth'[t].had]_vars

\* A resolve that asked for another kind and other keyword arguments than
\* the registered collector has got that collector.
C19_Witness ==
    \E t \in RegThreads :
       /\ RDone(t)
       /\ rth[t].had # None
       /\ rth[t].result = rth[t].had
       /\ handles[rth[t].had].kind # rth[t].kind
       /\ handles[rth[t].had].kw # rth[t].kw
       /\ Len(handles) = 1

\* C20: a resolve that begins after a handle was returned for its key
\* returns that handle.
C20_ReturnedHandleIsNeverReplaced ==
    \A t \in RegThreads :
       RDone(t) => \A h \in rth[t].seen \ {None} : rth[t].result = h

\* What holds of C20: no step removes or changes an entry of the registry
\* or a collector.
RegistryOnlyGrows ==
    [][registry \subseteq registry' /\ IsPrefix(handles, handles')]_vars

\* What holds of C11, C18 and C20: a resolve whose key is among the names
\* its collector is registered under, or registered already, returns the
\* handle registered under the key.
KeyedResolveReturnsRegisteredHandle ==
    \A t \in RegThreads :
       (/\ RDone(t)
        /\ \/ GetFullName(rth[t].spec) \in CollectorNames(rth[t].kind, rth[t].spec)
           \/ ~rth[t].fresh) =>
          /\ rth[t].result # None
          /\ rth[t].result = Get(GetFullName(rth[t].spec))

\* ------------------------------------------------ properties of validation
\* The grammar of metric names: 1 to 64 characters, a letter or an
\* underscore first, letters, digits and underscores only.
InGrammar(s) ==
    /\ s # NotAString
    /\ StrLen(s) \in 1..64
    /\ s[1][1] \in {"L", "U"}
    /\ \A i \in 1..Len(s) : s[i][1] \in {"L", "D", "U"}

\* C12: validate_metric_name returns a name of the grammar unchanged and
\* raises for every other input.
C12_ValidatesExactlyTheGrammar ==
    output.done =>
       IF InGrammar(input) THEN output = Returns(input) ELSE output.raised

\* What holds of C12: names of the grammar are returned unchanged, and the
\* only other inputs returned are a name of the grammar followed by one
\* newline.
ValidatesGrammarUpToFinalNewline ==
    output.done =>
       /\ InGrammar(input) => output = Returns(input)
       /\ (~InGrammar(input) /\ ~output.raised) =>
             /\ input # NotAString
             /\ input[Len(input)] = <<"N", 1>>
             /\ InGrammar(SubSeq(input, 1, Len(input) - 1))
             /\ output.val = input

\* C13: sanitize_log_filename returns, and what it returns is not empty
\* and holds neither a slash nor a backslash.
C13_SanitizedNameIsSafe ==
    output.done =>
       /\ ~output.raised
       /\ output.val # <<>>
       /\ \A i \in 1..Len(output.val) : output.val[i] \notin {"/", "\\"}

\* A name that is only directories ("/./") has been given the default.
C13_Witness ==
    /\ output.done
    /\ input = <<"/", ".", "/">>
    /\ output.val = <<"d", "e", "f", "a", "u", "l", "t">>

\* The characters of [A-Za-z0-9_.-] among those of the inputs.
AsciiNameChars == {"a", "_", "-", "."}

\* C21: what sanitize_log_filename returns is "default" or made of
\* characters of [A-Za-z0-9_.-] only.
C21_OnlyAsciiNameCharacters ==
    output.done =>
       \/ output.val = <<"d", "e", "f", "a", "u", "l", "t">>
       \/ \A i \in 1..Len(output.val) : output.val[i] \in AsciiNameChars

\* input[p..q] is a path segment: it lies between slashes or the ends of
\* the string, holds no slash, and is neither empty nor ".".
Segment(p, q) ==
    /\ p <= q
    /\ p = 1 \/ input[p - 1] = "/"
    /\ q = Len(input) \/ input[q + 1] = "/"
    /\ \A i \in p..q : input[i] # "/"
    /\ ~(p = q /\ input[p] = ".")
Positions == 1..Len(input)

\* C21 as amended: with no path segment in the input the result is
\* "default"; otherwise it is the last segment, character by character,
\* with every character that is not a word character (of any script), a
\* dot or a hyphen replaced by an underscore.
C21_OnlyWordCharactersDotsAndHyphens ==
    output.done =>
       /\ ~output.raised
       /\ IF \E p, q \in Positions : Segment(p, q)
          THEN \E p, q \in Positions :
                  /\ Segment(p, q)
                  /\ \A p2, q2 \in Positions : Segment(p2, q2) => q2 <= q
                  /\ Len(output.val) = q - p + 1
                  /\ \A i \in 1..Len(output.val) :
                        /\ output.val[i] \in WordChars \cup {"-", ".", "_"}
                        /\ output.val[i] =
                              IF input[p + i - 1] \in WordChars \cup {"-", "."}
                              THEN input[p + i - 1] ELSE "_"
          ELSE output.val = <<"d", "e", "f", "a", "u", "l", "t">>

\* The directory is dropped, the backslash of the last segment replaced
\* and its letter outside ASCII kept.
C21_Witness ==
    /\ output.done
    /\ input = <<"a", "/", "é", "\\">>
    /\ output.val = <<"é", "_">>

\* -------------------------------------------------- properties of notiq_task
\* C15: shared_task gets the caller's positional arguments and keyword
\* arguments unchanged, and acks_late=True and reject_on_worker_lost=True
\* for each of the two the caller did not supply.
C15_TaskDefaultsUnlessSupplied ==
    output.done =>
       /\ output.val.args = input.args
       /\ DOMAIN output.val.kwargs = DOMAIN input.kwargs \cup OptionKeys
       /\ \A k \in DOMAIN input.kwargs : output.val.kwargs[k] = input.kwargs[k]
       /\ \A k \in OptionKeys \ DOMAIN input.kwargs : output.val.kwargs[k] = "True"

\* The caller supplied acks_late=False and a name, and no
\* reject_on_worker_lost.
C15_Witness ==
    /\ output.done
    /\ input.args = <<"func">>
    /\ DOMAIN input.kwargs = {"acks_late", "name"}
    /\ input.kwargs["acks_late"] = "False"
    /\ output.val.kwargs["acks_late"] = "False"
    /\ output.val.kwargs["reject_on_worker_lost"] = "True"

\* ---------------------------------------------- properties of configuration
GivenInvalid ==
    ~(ValidBroker(cfg.args.BROKER_URL) /\ ValidBackend(cfg.args.RESULT_BACKEND))

\* C14: NotiqConfig given a broker or backend URL that fails validation
\* raises and leaves celery_app.conf as it was; the configuration from the
\* environment, given one, raises nothing and leaves celery_app.conf at
\* create_celery_app's defaults.
C14_InvalidSettingsAreNeverApplied ==
    /\ (cfg.last = "explicit" /\ GivenInvalid) =>
          cfg.raised /\ conf = cfg.before
    /\ (cfg.last = "auto" /\ GivenInvalid) =>
          ~cfg.raised /\ conf = DefaultConf

\* The import found a valid broker and an invalid backend in the
\* environment and applied nothing; NotiqConfig was then given the same
\* and raised.
C14_Witness ==
    /\ cfg.last = "explicit"
    /\ cfg.calls = 1
    /\ ~cfg.autoValid
    /\ cfg.args.BROKER_URL.scheme = "redis"
    /\ cfg.args.RESULT_BACKEND.scheme = "amqp"
    /\ cfg.raised
    /\ conf = DefaultConf

\* C25: NotiqConfig given a broker or backend URL that fails validation
\* raises and leaves NOTIQ_BROKER_URL, NOTIQ_RESULT_BACKEND and
\* NOTIQ_TASK_DIR as they were before the call.
C25_FailedConfigLeavesEnvironment ==
    (cfg.last = "explicit" /\ GivenInvalid) =>
       cfg.raised /\ env = cfg.envBefore

\* What holds of C25: the call raises, and it has set the three variables
\* to the values it was given.
FailedConfigHasSetEnvironment ==
    (cfg.last = "explicit" /\ GivenInvalid) =>
       cfg.raised /\ env = cfg.args /\ conf = cfg.before

\* ----------------------------------------- properties of the counters
\* The status an invocation that ended with outcome r is counted under.
OutcomeStatus(r) ==
    IF r.kind = "return" THEN "success"
    ELSE IF r.exc.type = "CancelledError" THEN "cancelled"
    ELSE "error"

\* C16: an invocation that has finished has incremented one counter, once:
\* the one of its outcome.
C16_ExactlyOneCounterPerInvocation ==
    \A s \in Slots :
       Done(s) => calls[s].incs = <<OutcomeStatus(calls[s].res)>>

\* What holds of C16: when no log call failed and the wrapped callable
\* returned, raised an Exception or (async) was cancelled.
OneCounterForOrdinaryOutcomes ==
    \A s \in Slots :
       (/\ Done(s)
        /\ ~calls[s].logFailed
        /\ \/ calls[s].fout.kind = "return"
           \/ IsException(calls[s].fout.exc)
           \/ calls[s].fout.exc = Cancellation) =>
          calls[s].incs = <<OutcomeStatus(calls[s].fout)>>

NoneInProgress == \A s \in Slots : calls[s].pc \in {"idle", "done"}
Finished(n, st) ==
    {s \in Slots : Done(s) /\ NameOf(s) = n /\ OutcomeStatus(calls[s].res) = st}

\* C17: every finished invocation has recorded one latency, measured from
\* its own start; there are as many observations as finished invocations;
\* and when no invocation is in progress, each counter equals the number
\* of finished invocations of its function name and outcome.
C17_ConcurrentInvocationsDoNotInterfere ==
    /\ \A s \in Slots :
          Done(s) =>
             /\ Len(calls[s].observed) = 1
             /\ calls[s].observed[1] >= calls[s].invoked
             /\ calls[s].observed[1] <= now - calls[s].start
    /\ \A n \in GoodNames :
          obsCount[n] = Cardinality({s \in Slots : Done(s) /\ NameOf(s) = n})
    /\ NoneInProgress =>
          \A n \in GoodNames, st \in Statuses :
             count[n][st] = Cardinality(Finished(n, st))

\* What holds of C17: the latencies and the observation counts, and the
\* counters hold what the invocations themselves incremented.
InvocationsRecordTheirOwn ==
    /\ \A s \in Slots :
          Done(s) =>
             /\ Len(calls[s].observed) = 1
             /\ calls[s].observed[1] >= calls[s].invoked
             /\ calls[s].observed[1] <= now - calls[s].start
    /\ \A n \in GoodNames :
          obsCount[n] = Cardinality({s \in Slots : Done(s) /\ NameOf(s) = n})
    /\ CountersMatchHistory

\* ------------------------------------------------ properties of the wrappers
Started(s) == calls[s].w # 0
IsAsync(s) == Started(s) /\ KindOf(s) = "async"

\* C22: an async invocation is off the event loop only while the wrapped
\* callable is suspended: from the callable's completion to the wrapper's
\* exit it keeps the loop, so no step of another task happens in between,
\* and no other task runs while a counter is incremented and the latency
\* is not yet observed.
C22_NoSuspensionInBookkeeping ==
    /\ [](\A s \in Slots :
            (IsAsync(s) /\ calls[s].pc \notin {"idle", "done", "suspended"}) =>
               loop = s)
    /\ [](\A s \in Slots :
            (IsAsync(s) /\ calls[s].incs # <<>> /\ calls[s].observed = <<>>) =>
               loop = s)
    /\ [][\A s, u \in Slots :
            (/\ IsAsync(s)
             /\ calls[s].fout # NoOutcome
             /\ ~Done(s)
             /\ u # s
             /\ calls'[u] # calls[u]) =>
               (calls'[u].w # 0 /\ wrappers[calls'[u].w].kind = "sync")]_vars

\* A cancelled task has incremented its counter and not yet observed its
\* latency, while another task waits suspended.
C22_Witness ==
    \E s, u \in Slots :
       /\ s # u
       /\ IsAsync(s) /\ IsAsync(u)
       /\ calls[s].pc = "finally"
       /\ calls[s].incs = <<"cancelled">>
       /\ calls[u].pc = "suspended"
       /\ loop = s

\* The lines the wrapper logs.
StartLine == <<"info", "started">>
SuccessLine == <<"info", "success">>
CancelLine == <<"info", "cancelled">>
ErrorLine == <<"error", "error">>
HasLine(s, line) == \E i \in 1..Len(calls[s].logs) : calls[s].logs[i] = line

\* C23: with log_calls disabled a finished invocation has logged nothing
\* when the callable returned, the error line when it failed and the
\* cancellation line when it was cancelled; its counter and its latency are
\* those of its outcome, as with log_calls enabled; with log_calls enabled
\* the start line is logged before the callable is invoked and the success
\* line only after it returned.
C23_LogCallsOnlyGatesSuccessPathLines ==
    \A s \in Slots :
       Started(s) =>
          LET lc == WrapperOf(s).log_calls
              f == calls[s].fout
          IN  /\ (Done(s) /\ ~lc /\ f.kind = "return") => calls[s].logs = <<>>
              /\ (Done(s) /\ ~lc /\ f.kind = "raise" /\ f.exc # Cancellation) =>
                    calls[s].logs = <<ErrorLine>>
              /\ (Done(s) /\ ~lc /\ f.exc = Cancellation) =>
                    calls[s].logs = <<CancelLine>>
              /\ (Done(s) /\ calls[s].invoked = 1) =>
                    /\ calls[s].incs = <<OutcomeStatus(f)>>
                    /\ Len(calls[s].observed) = 1
              /\ (lc /\ calls[s].invoked > 0) =>
                    (calls[s].logs # <<>> /\ calls[s].logs[1] = StartLine)
              /\ HasLine(s, SuccessLine) => (lc /\ f.kind = "return")
              /\ ~lc => ~HasLine(s, StartLine)

\* What holds of C23: the same, for the invocations none of whose log
\* calls failed and whose callable returned, raised an Exception or
\* (async) was cancelled.
LogLinesForOrdinaryOutcomes ==
    \A s \in Slots :
       Started(s) =>
          LET lc == WrapperOf(s).log_calls
              f == calls[s].fout
              ordinary == \/ f.kind = "return"
                          \/ IsException(f.exc)
                          \/ f.exc = Cancellation
          IN  /\ (Done(s) /\ ~calls[s].logFailed /\ ordinary) =>
                    /\ calls[s].incs = <<OutcomeStatus(f)>>
                    /\ Len(calls[s].observed) = 1
                    /\ calls[s].logs =
                          (IF lc THEN <<StartLine>> ELSE <<>>)
                          \o (CASE f.kind = "return" ->
                                     IF lc THEN <<SuccessLine>> ELSE <<>>
                                [] f.exc = Cancellation -> <<CancelLine>>
                                [] OTHER -> <<ErrorLine>>)
              /\ (lc /\ calls[s].invoked > 0) =>
                    (calls[s].logs # <<>> /\ calls[s].logs[1] = StartLine)
              /\ HasLine(s, SuccessLine) => (lc /\ f.kind = "return")
              /\ ~lc => ~HasLine(s, StartLine)

\* The invocations that have finished of the callables decorated with n.
FinishedUnder(n) ==
    {s \in Slots : Done(s) /\ wrappers[calls[s].w].name = n}

\* C26: when no invocation is in progress, the latency observations
\* labelled n are as many as the finished invocations of all the callables
\* decorated with n, and the three counters labelled n add up to at most
\* that number.
C26_MetricsKeyedByMetricName ==
    NoneInProgress =>
       \A n \in GoodNames :
          /\ obsCount[n] = Cardinality(FinishedUnder(n))
          /\ count[n]["success"] + count[n]["error"] + count[n]["cancelled"]
                <= Cardinality(FinishedUnder(n))

\* Two callables, one sync and one async, decorated with the same name
\* have each been invoked once; one invocation was not counted.
C26_Witness ==
    /\ Len(wrappers) = 2
    /\ wrappers[1].name = NameB /\ wrappers[2].name = NameB
    /\ wrappers[1].kind # wrappers[2].kind
    /\ Done(1) /\ Done(2)
    /\ calls[1].w # calls[2].w
    /\ obsCount[NameB] = 2
    /\ count[NameB]["success"] = 1
    /\ count[NameB]["error"] = 0 /\ count[NameB]["cancelled"] = 0

\* ------------------------------------------------ properties of _setup_lock
InSetupBody(t) == lth[t].pc \in {"check", "console", "file", "propagate", "release"}
EmitStep == \E n \in LogNames : loggers'[n].records # loggers[n].records

\* C24: a thread holds _setup_lock exactly while it is inside the body of
\* setup()'s with statement, so at most one thread is; every exit of
\* setup(), by return or by an exception of the handler setup, frees the
\* lock; under fair scheduling every setup() that began ends; and emitting
\* a record through a configured logger leaves the lock and the threads
\* in setup() as they are.
C24_SetupLockHeldOnlyDuringSetup ==
    /\ [](\A t \in LogThreads : lockOwner = t <=> InSetupBody(t))
    /\ [](\A t, u \in LogThreads : (InSetupBody(t) /\ InSetupBody(u)) => t = u)
    /\ [][EmitStep => (lockOwner' = lockOwner /\ lth' = lth)]_vars
    /\ \A t \in LogThreads : (lth[t].pc # "idle") ~> (lth[t].pc = "idle")

\* The handler setup of one thread has raised and it is about to leave the
\* with statement, while another thread waits for the lock and a record
\* has been emitted through the logger.
C24_Witness ==
    \E t, u \in LogThreads :
       /\ lth[t].pc = "release"
       /\ lth[t].raisedOut
       /\ lockOwner = t
       /\ lth[u].pc = "setup"
       /\ loggers[lth[t].name].records = 1

====
